---- MODULE Spec2Model ----
(***************************************************************************)
(* CodeParse: folder upload and filtering, the folder/file tree, the       *)
(* selection set, and the TXT / PDF builders, as a state machine.          *)
(*                                                                         *)
(* JavaScript strings are modelled as sequences of one-character strings,  *)
(* so that split, join, slice, endsWith, toLowerCase and localeCompare are *)
(* computed and not assumed.                                               *)
(***************************************************************************)
EXTENDS Integers, Sequences, FiniteSets, TLC

VARIABLES
    pendingScans,     \* scanFolder calls suspended at `await f.text()` of a .gitignore
    files,            \* useState<UploadedFile[]>
    selectedFiles,    \* useState<Set<string>>
    gitignoreApplied, \* useState(false)
    isProcessing,     \* useState(false)
    txtBlob,          \* useState<Blob | null>
    pdfBlob,          \* useState<Blob | null>
    txtPreview,       \* useState<string>
    gen,              \* the generateDocuments invocation in flight (its locals and position)
    runs,             \* how many generateDocuments invocations have passed the guard
    bt,               \* a buildTree call in progress (its locals and position)
    hw                \* the layout of one logical line in progress (hardWrap's arguments and result)

vars == <<pendingScans, files, selectedFiles, gitignoreApplied,
          isProcessing, txtBlob, pdfBlob, txtPreview, gen, runs, bt, hw>>

(***************************************************************************)
(* Strings                                                                 *)
(***************************************************************************)

\* null of `Blob | null`
Null == [type |-> "null", run |-> 0]

RECURSIVE FlattenRange(_, _, _)
\* ss[lo] ... ss[hi] one after the other: the first half, then the second
FlattenRange(ss, lo, hi) ==
    IF lo > hi THEN <<>>
    ELSE IF lo = hi THEN ss[lo]
    ELSE FlattenRange(ss, lo, (lo + hi) \div 2) \o FlattenRange(ss, (lo + hi) \div 2 + 1, hi)

\* Array.prototype.join('') over an array of strings (v is the array, computed once)
Flatten(ss) == CHOOSE joined \in {FlattenRange(v, 1, Len(v)) : v \in {ss}} : TRUE

RECURSIVE SplitFrom(_, _, _)
\* helper of Split: cur is the segment being read
SplitFrom(s, sep, cur) ==
    IF s = <<>> THEN <<cur>>
    ELSE IF Head(s) = sep THEN <<cur>> \o SplitFrom(Tail(s), sep, <<>>)
    ELSE SplitFrom(Tail(s), sep, Append(cur, Head(s)))

\* String.prototype.split(sep) for a one-character separator: "" gives [""]
Split(s, sep) == SplitFrom(s, sep, <<>>)

RECURSIVE Join(_, _)
\* Array.prototype.join(sep)
Join(segs, sep) ==
    IF segs = <<>> THEN <<>>
    ELSE IF Len(segs) = 1 THEN segs[1]
    ELSE segs[1] \o <<sep>> \o Join(Tail(segs), sep)

\* String.prototype.endsWith
EndsWith(s, suffix) ==
    /\ Len(suffix) <= Len(s)
    /\ SubSeq(s, Len(s) - Len(suffix) + 1, Len(s)) = suffix

\* String.prototype.includes for one character
Includes(s, c) == \E i \in 1..Len(s) : s[i] = c

UpperToLower ==
    ("A" :> "a") @@ ("B" :> "b") @@ ("C" :> "c") @@ ("D" :> "d") @@ ("E" :> "e") @@
    ("F" :> "f") @@ ("G" :> "g") @@ ("H" :> "h") @@ ("I" :> "i") @@ ("J" :> "j") @@
    ("K" :> "k") @@ ("L" :> "l") @@ ("M" :> "m") @@ ("N" :> "n") @@ ("O" :> "o") @@
    ("P" :> "p") @@ ("Q" :> "q") @@ ("R" :> "r") @@ ("S" :> "s") @@ ("T" :> "t") @@
    ("U" :> "u") @@ ("V" :> "v") @@ ("W" :> "w") @@ ("X" :> "x") @@ ("Y" :> "y") @@
    ("Z" :> "z")

\* String.prototype.toLowerCase
ToLowerCase(s) ==
    [i \in 1..Len(s) |-> IF s[i] \in DOMAIN UpperToLower THEN UpperToLower[s[i]] ELSE s[i]]

\* String.prototype.replaceAll('\\', '/')
ReplaceBackslashes(s) ==
    [i \in 1..Len(s) |-> IF s[i] = "\\" THEN "/" ELSE s[i]]

(***************************************************************************)
(* localeCompare: the default collation compares first by primary weight   *)
(* (punctuation, then digits, then letters regardless of case; a proper    *)
(* prefix sorts first) and breaks primary ties by case, lower case first.  *)
(***************************************************************************)

Letters == <<"a","b","c","d","e","f","g","h","i","j","k","l","m",
             "n","o","p","q","r","s","t","u","v","w","x","y","z">>
Digits == <<"0","1","2","3","4","5","6","7","8","9">>
Punctuation == <<"_", "-", ".", "/", "\\">>

\* the characters in collation order, one entry per primary weight
CollationOrder == Punctuation \o Digits \o Letters

\* primary collation weight of every character of the model's names
CollationWeights ==
    [c \in {CollationOrder[i] : i \in 1..Len(CollationOrder)} \cup DOMAIN UpperToLower |->
        LET l == IF c \in DOMAIN UpperToLower THEN UpperToLower[c] ELSE c
        IN  CHOOSE i \in 1..Len(CollationOrder) : CollationOrder[i] = l]

PrimaryWeight(c) == CollationWeights[c]

RECURSIVE ComparePrimary(_, _)
ComparePrimary(a, b) ==
    IF a = <<>> /\ b = <<>> THEN 0
    ELSE IF a = <<>> THEN -1
    ELSE IF b = <<>> THEN 1
    ELSE IF PrimaryWeight(Head(a)) < PrimaryWeight(Head(b)) THEN -1
    ELSE IF PrimaryWeight(Head(a)) > PrimaryWeight(Head(b)) THEN 1
    ELSE ComparePrimary(Tail(a), Tail(b))

RECURSIVE CompareCase(_, _)
\* a and b have equal primary weights throughout
CompareCase(a, b) ==
    IF a = <<>> THEN 0
    ELSE IF Head(a) = Head(b) THEN CompareCase(Tail(a), Tail(b))
    ELSE IF Head(a) \in DOMAIN UpperToLower THEN 1
    ELSE -1

\* String.prototype.localeCompare
LocaleCompare(a, b) ==
    LET p == ComparePrimary(a, b)
    IN  IF p # 0 THEN p ELSE CompareCase(a, b)

(***************************************************************************)
(* Extension classifier                                                    *)
(***************************************************************************)

codeExtensions ==
  <<
    <<".","j","s">>, <<".","j","s","x">>, <<".","t","s">>, <<".","t","s","x">>,
    <<".","p","y">>, <<".","j","a","v","a">>, <<".","c","p","p">>, <<".","c">>,
    <<".","h">>, <<".","h","p","p">>, <<".","c","s">>, <<".","p","h","p">>,
    <<".","r","b">>, <<".","g","o">>, <<".","r","s">>, <<".","s","w","i","f","t">>,
    <<".","k","t">>, <<".","s","c","a","l","a">>, <<".","r">>, <<".","s","q","l">>,
    <<".","h","t","m","l">>, <<".","c","s","s">>, <<".","s","c","s","s">>,
    <<".","s","a","s","s">>, <<".","l","e","s","s">>, <<".","j","s","o","n">>,
    <<".","x","m","l">>, <<".","y","a","m","l">>, <<".","y","m","l">>, <<".","m","d">>,
    <<".","t","x","t">>, <<".","s","h">>, <<".","b","a","t">>, <<".","p","s","1">>,
    <<".","d","o","c","k","e","r","f","i","l","e">>,
    <<".","g","i","t","i","g","n","o","r","e">>, <<".","e","n","v">>,
    <<".","c","o","n","f","i","g">>, <<".","i","n","i">>, <<".","c","o","n","f">>,
    <<".","l","o","c","k">>
  >>

isCodeFile(fileName) ==
    LET lower == ToLowerCase(fileName)
    IN  \/ \E i \in 1..Len(codeExtensions) : EndsWith(lower, codeExtensions[i])
        \/ ~Includes(fileName, ".")

(***************************************************************************)
(* Path tree builder                                                       *)
(***************************************************************************)

\* currentLevel.find((n) => n.name === segment): its index, 0 for undefined
FindByName(level, segment) ==
    IF \E i \in 1..Len(level) : level[i].name = segment
    THEN CHOOSE i \in 1..Len(level) :
            /\ level[i].name = segment
            /\ \A j \in 1..(i - 1) : level[j].name # segment
    ELSE 0

RECURSIVE InsertSegments(_, _, _, _)
\* the body of segments.forEach from segment idx on, applied to currentLevel
InsertSegments(currentLevel, segments, idx, file) ==
    LET segment == segments[idx]
        pos == FindByName(currentLevel, segment)
    IN  IF idx = Len(segments)
        THEN IF pos = 0
             THEN Append(currentLevel,
                         [name |-> segment, path |-> file.path,
                          type |-> "file", size |-> file.size])
             ELSE currentLevel
        ELSE IF pos # 0 /\ currentLevel[pos].type = "folder"
             THEN [currentLevel EXCEPT ![pos].children =
                        InsertSegments(@, segments, idx + 1, file)]
             ELSE Append(currentLevel,
                         [name |-> segment,
                          path |-> Join(SubSeq(segments, 1, idx), "/"),
                          type |-> "folder",
                          children |-> InsertSegments(<<>>, segments, idx + 1, file)])

\* one iteration of `for (const file of files)`
InsertFile(root, file) == InsertSegments(root, Split(file.path, "/"), 1, file)

\* the comparator given to nodes.sort
CompareNodes(a, b) ==
    IF a.type # b.type
    THEN (IF a.type = "folder" THEN -1 ELSE 1)
    ELSE LocaleCompare(a.name, b.name)

RECURSIVE InsertSorted(_, _)
\* stable insertion of node n into the sorted sequence
InsertSorted(sorted, n) ==
    IF sorted = <<>> THEN <<n>>
    ELSE IF CompareNodes(sorted[Len(sorted)], n) <= 0 THEN Append(sorted, n)
    ELSE Append(InsertSorted(SubSeq(sorted, 1, Len(sorted) - 1), n), sorted[Len(sorted)])

RECURSIVE StableSort(_)
\* Array.prototype.sort with CompareNodes (a stable sort)
StableSort(nodes) ==
    IF nodes = <<>> THEN <<>>
    ELSE InsertSorted(StableSort(SubSeq(nodes, 1, Len(nodes) - 1)), nodes[Len(nodes)])

\* sortNodes without `if (n.children) sortNodes(n.children)`
sortNodes_rootOnly(nodes) == StableSort(nodes)

RECURSIVE sortNodes(_)
\* nodes.sort(...) first (s is the sorted list), then each folder's children
sortNodes(nodes) ==
    CHOOSE sorted \in
        { [i \in 1..Len(s) |->
              IF s[i].type = "folder"
              THEN [s[i] EXCEPT !.children = sortNodes(@)]
              ELSE s[i]]
          : s \in {StableSort(nodes)} } : TRUE

RECURSIVE InsertAll(_, _)
\* the for loop of buildTree over files, from the tree built so far
InsertAll(root, fs) ==
    IF fs = <<>> THEN root ELSE InsertAll(InsertFile(root, Head(fs)), Tail(fs))

buildTree(fs) == sortNodes(InsertAll(<<>>, fs))

RECURSIVE collectFilePaths(_)
collectFilePaths(node) ==
    IF node.type = "file" THEN <<node.path>>
    ELSE Flatten([i \in 1..Len(node.children) |-> collectFilePaths(node.children[i])])

\* the paths under all root rows of a tree, left to right
CollectAll(nodes) == Flatten([i \in 1..Len(nodes) |-> collectFilePaths(nodes[i])])

RECURSIVE AllNodes(_)
\* every node a FileTree renders as a TreeRow (root rows and, recursively, children)
AllNodes(nodes) ==
    UNION {{nodes[i]} \cup (IF nodes[i].type = "folder" THEN AllNodes(nodes[i].children) ELSE {})
           : i \in 1..Len(nodes)}

RECURSIVE SiblingLists(_)
\* every sibling list of a tree: the root list and every folder's children
SiblingLists(nodes) ==
    {nodes} \cup UNION {IF nodes[i].type = "folder" THEN SiblingLists(nodes[i].children) ELSE {}
                        : i \in 1..Len(nodes)}

(***************************************************************************)
(* The uploaded folder.  A File is {name, webkitRelativePath, size} and the *)
(* text its text() resolves with.  Every File of a directory upload has a  *)
(* non-empty webkitRelativePath that starts with the picked folder's name, *)
(* so `webkitRelativePath ?? f.name` is the relative path.                 *)
(***************************************************************************)

MAX_EXPORT_SIZE == 50 * 1024 * 1024

FilePool ==
    << [name |-> <<".","g","i","t","i","g","n","o","r","e">>,
        webkitRelativePath |-> <<"p","/",".","g","i","t","i","g","n","o","r","e">>,
        size |-> 4, text |-> <<"#","c","\n","\n","x">>],
       [name |-> <<"a",".","j","s">>,
        webkitRelativePath |-> <<"p","/","a",".","j","s">>,
        size |-> MAX_EXPORT_SIZE, text |-> <<"h","i">>],
       [name |-> <<"x">>,
        webkitRelativePath |-> <<"p","/","x">>,
        size |-> 1, text |-> <<"\n">>],
       [name |-> <<"x","\\","B",".","J","S">>,
        webkitRelativePath |-> <<"p","/","x","\\","B",".","J","S">>,
        size |-> 0, text |-> <<>>],
       [name |-> <<"b",".","j","s">>,
        webkitRelativePath |-> <<"p","/","x","/","b",".","j","s">>,
        size |-> 1, text |-> <<"a","\r","\n","\n","b">>],
       [name |-> <<"l","o","g","o",".","p","n","g">>,
        webkitRelativePath |-> <<"p","/","l","o","g","o",".","p","n","g">>,
        size |-> 7, text |-> <<"P","N","G">>] >>

\* how many files of FilePool the folders picked in the component's runs draw on
UiPoolLen == 4

\* the largest number of File objects in one FileList of the component's runs
MaxUploadLen == 2

\* the largest number of File objects in one FileList given to scanFolder alone
MaxScanLen == 3

\* the most scanFolder calls suspended at the same time
MaxPendingScans == 1

\* the most generateDocuments invocations that pass the guard in one run of the model
MaxRuns == 2

RECURSIVE SubSeqsOf(_)
\* every subsequence of a sequence (the files of a folder, in directory order)
SubSeqsOf(s) ==
    IF s = <<>> THEN {<<>>}
    ELSE LET rest == SubSeqsOf(Tail(s))
         IN  rest \cup {<<Head(s)>> \o r : r \in rest}

IsProperPrefix(a, b) == Len(a) < Len(b) /\ SubSeq(b, 1, Len(a)) = a

\* a FileList is the listing of one folder: no file's path is a folder of another's
IsFolderListing(fl) ==
    \A i, j \in 1..Len(fl) :
        ~IsProperPrefix(Split(fl[i].webkitRelativePath, "/"),
                        Split(fl[j].webkitRelativePath, "/"))

\* the FileLists a change event of the folder input may carry
FileLists ==
    {fl \in SubSeqsOf(SubSeq(FilePool, 1, UiPoolLen)) :
        Len(fl) <= MaxUploadLen /\ IsFolderListing(fl)}

\* the FileLists scanFolder is run on alone
ScanFileLists ==
    {fl \in SubSeqsOf(FilePool) : Len(fl) <= MaxScanLen /\ IsFolderListing(fl)}

(***************************************************************************)
(* The `ignore` package, for the rule files of the model: a rule file is   *)
(* lines of plain names, blank lines and # comments.  A plain name         *)
(* excludes every file or folder of that name at any depth, and everything *)
(* below an excluded folder.                                               *)
(***************************************************************************)

\* ig.add(text): the patterns of one rule file
ParseIgnore(text) ==
    SelectSeq(Split(text, "\n"), LAMBDA line : line # <<>> /\ Head(line) # "#")

\* ignore() followed by ig.add(await f.text()) for every .gitignore found
IgnoreRules(candidates) ==
    Flatten([i \in 1..Len(candidates) |-> ParseIgnore(candidates[i].text)])

\* ig.ignores(relPath)
Ignores(rules, relPath) ==
    LET segs == Split(relPath, "/")
    IN  \E k \in 1..Len(segs) : \E r \in 1..Len(rules) : rules[r] = segs[k]

(***************************************************************************)
(* scanFolder                                                              *)
(***************************************************************************)

GitignoreName == <<".","g","i","t","i","g","n","o","r","e">>

igFileCandidates(arr) == SelectSeq(arr, LAMBDA f : f.name = GitignoreName)

\* baseDir: the first segment of the first file's relative path
BaseDir(arr) ==
    LET firstPath == arr[1].webkitRelativePath
    IN  IF firstPath # <<>> THEN Split(firstPath, "/")[1] ELSE <<>>

Normalized(f) == ReplaceBackslashes(f.webkitRelativePath)

\* path relative to the project root, for ignore matching
RelPath(arr, f) ==
    IF BaseDir(arr) # <<>>
    THEN Join(Tail(Split(Normalized(f), "/")), "/")
    ELSE Normalized(f)

\* whether the loop body reaches clean.push for file f; hasIg: `ig` is not null
KeepFile(arr, hasIg, rules, f) ==
    /\ ~(hasIg /\ Ignores(rules, RelPath(arr, f)))
    /\ isCodeFile(f.name)

RECURSIVE InsertByPath(_, _)
InsertByPath(sorted, u) ==
    IF sorted = <<>> THEN <<u>>
    ELSE IF LocaleCompare(sorted[Len(sorted)].path, u.path) <= 0 THEN Append(sorted, u)
    ELSE Append(InsertByPath(SubSeq(sorted, 1, Len(sorted) - 1), u), sorted[Len(sorted)])

RECURSIVE SortByPath(_)
\* clean.sort((a, b) => a.path.localeCompare(b.path))
SortByPath(us) ==
    IF us = <<>> THEN <<>>
    ELSE InsertByPath(SortByPath(SubSeq(us, 1, Len(us) - 1)), us[Len(us)])

\* the list scanFolder resolves with
scanFolder(arr) ==
    LET cands == igFileCandidates(arr)
        hasIg == cands # <<>>
        rules == IgnoreRules(cands)
        kept  == SelectSeq(arr, LAMBDA f : KeepFile(arr, hasIg, rules, f))
        clean == [i \in 1..Len(kept) |->
                    [fle |-> kept[i], path |-> Normalized(kept[i]), size |-> kept[i].size]]
    IN  SortByPath(clean)

PathsOf(fs) == {fs[i].path : i \in 1..Len(fs)}

(***************************************************************************)
(* Derived values of one render                                            *)
(***************************************************************************)

RECURSIVE SumSizes(_)
SumSizes(fs) == IF fs = <<>> THEN 0 ELSE Head(fs).size + SumSizes(Tail(fs))

SelectedOf(fs, sel) == SelectSeq(fs, LAMBDA f : f.path \in sel)

getSelectedSize == SumSizes(SelectedOf(files, selectedFiles))

\* the guard without its size test
exportTooLarge_never == FALSE

exportTooLarge == getSelectedSize > MAX_EXPORT_SIZE

\* useMemo(() => buildTree(files), [files])
tree == buildTree(files)

(***************************************************************************)
(* Selection helpers                                                       *)
(***************************************************************************)

\* the updater with `next.has(path) ? next.delete(path) : next.add(path)` cut to next.add(path)
ToggleFileUpdater_addOnly(prev, path) == prev \cup {path}

\* the updater toggleFile gives to setSelectedFiles
ToggleFileUpdater(prev, path) ==
    IF path \in prev THEN prev \ {path} ELSE prev \cup {path}

\* the updater with paths.forEach stopped after the first path
ToggleFolderUpdater_firstOnly(next, paths, select) ==
    IF paths = <<>> THEN next
    ELSE IF select THEN next \cup {Head(paths)} ELSE next \ {Head(paths)}

RECURSIVE ToggleFolderUpdater(_, _, _)
\* the updater toggleFolder gives to setSelectedFiles: paths.forEach over a copy of prev
ToggleFolderUpdater(next, paths, select) ==
    IF paths = <<>> THEN next
    ELSE ToggleFolderUpdater(IF select THEN next \cup {Head(paths)} ELSE next \ {Head(paths)},
                             Tail(paths), select)

toggleFile(path) ==
    /\ selectedFiles' = ToggleFileUpdater(selectedFiles, path)
    /\ UNCHANGED <<pendingScans, files, gitignoreApplied, isProcessing,
                   txtBlob, pdfBlob, txtPreview, gen, runs, bt, hw>>

toggleFolder(paths, select) ==
    /\ selectedFiles' = ToggleFolderUpdater(selectedFiles, paths, select)
    /\ UNCHANGED <<pendingScans, files, gitignoreApplied, isProcessing,
                   txtBlob, pdfBlob, txtPreview, gen, runs, bt, hw>>

selectAll ==
    /\ selectedFiles' = PathsOf(files)
    /\ UNCHANGED <<pendingScans, files, gitignoreApplied, isProcessing,
                   txtBlob, pdfBlob, txtPreview, gen, runs, bt, hw>>

deselectAll ==
    /\ selectedFiles' = {}
    /\ UNCHANGED <<pendingScans, files, gitignoreApplied, isProcessing,
                   txtBlob, pdfBlob, txtPreview, gen, runs, bt, hw>>

(***************************************************************************)
(* TreeRow: what a click on a row's checkbox calls                         *)
(***************************************************************************)

descendantPaths(node) == collectFilePaths(node)

selectedCount(node) ==
    Len(SelectSeq(descendantPaths(node), LAMBDA p : p \in selectedFiles))

allSelected(node) == selectedCount(node) = Len(descendantPaths(node))

handleFolderToggle(node) == toggleFolder(descendantPaths(node), ~allSelected(node))

handleFileToggle(node) == toggleFile(node.path)

(***************************************************************************)
(* Folder upload                                                           *)
(***************************************************************************)

\* the updates with the new paths added to the selection of the upload before
ApplyScan_keepSelection(fl) ==
    LET clean == scanFolder(fl)
    IN  /\ gitignoreApplied' = (igFileCandidates(fl) # <<>>)
        /\ files' = clean
        /\ selectedFiles' = selectedFiles \cup PathsOf(clean)
        /\ txtBlob' = Null
        /\ pdfBlob' = Null
        /\ txtPreview' = <<>>

\* the five state updates that follow `await scanFolder(fl)`
ApplyScan(fl) ==
    LET clean == scanFolder(fl)
    IN  /\ gitignoreApplied' = (igFileCandidates(fl) # <<>>)
        /\ files' = clean
        /\ selectedFiles' = PathsOf(clean)
        /\ txtBlob' = Null
        /\ pdfBlob' = Null
        /\ txtPreview' = <<>>

\* the change event of the folder input, up to the first suspension: an empty
\* FileList returns at once; a folder with a .gitignore suspends in scanFolder
\* at f.text(); any other folder is scanned and applied without suspending
handleFolderUpload(fl) ==
    /\ IF Len(fl) = 0
       THEN UNCHANGED <<pendingScans, files, selectedFiles, gitignoreApplied,
                        txtBlob, pdfBlob, txtPreview>>
       ELSE IF igFileCandidates(fl) # <<>>
       THEN /\ Cardinality(pendingScans) < MaxPendingScans
            /\ pendingScans' = pendingScans \cup {fl}
            /\ UNCHANGED <<files, selectedFiles, gitignoreApplied,
                           txtBlob, pdfBlob, txtPreview>>
       ELSE /\ ApplyScan(fl)
            /\ UNCHANGED pendingScans
    /\ UNCHANGED <<isProcessing, gen, runs, bt, hw>>

\* every .gitignore of a suspended scan has been read: the scan and the upload finish
ScanResolve(fl) ==
    /\ fl \in pendingScans
    /\ pendingScans' = pendingScans \ {fl}
    /\ ApplyScan(fl)
    /\ UNCHANGED <<isProcessing, gen, runs, bt, hw>>

\* f.text() of a .gitignore rejects: scanFolder and handleFolderUpload reject
ScanReject(fl) ==
    /\ fl \in pendingScans
    /\ pendingScans' = pendingScans \ {fl}
    /\ UNCHANGED <<files, selectedFiles, gitignoreApplied, isProcessing,
                   txtBlob, pdfBlob, txtPreview, gen, runs, bt, hw>>

(***************************************************************************)
(* File reads.  getText() of an entry is f.fle.text(): it resolves with    *)
(* the file's text or rejects with an Error or with any other value.       *)
(***************************************************************************)

\* what a read may reject with: isError is `e instanceof Error`, message is
\* e.message and string is String(e)
ReadErrors ==
    { [isError |-> TRUE,
       message |-> <<"d","i","s","k"," ","e","r","r","o","r">>,
       string |-> <<"E","r","r","o","r",":"," ","d","i","s","k"," ","e","r","r","o","r">>],
      [isError |-> FALSE, message |-> <<>>, string |-> <<"b","o","o","m">>] }

\* File.text() rejects with a DOMException, which is an Error
FileReadErrors == {e \in ReadErrors : e.isError}

\* the ways the read of one entry may settle, given what a read may reject with
Outcomes(entry, errors) ==
    {[ok |-> TRUE, value |-> entry.fle.text]} \cup {[ok |-> FALSE, value |-> e] : e \in errors}

\* the handler with `err instanceof Error ? err.message : String(err)` cut to err.message
ErrorPlaceholder_messageOnly(e) ==
    <<"[","E","r","r","o","r"," ","r","e","a","d","i","n","g"," ","f","i","l","e",":"," ">>
    \o e.message \o <<"]">>

\* the handler given to .catch
ErrorPlaceholder(e) ==
    <<"[","E","r","r","o","r"," ","r","e","a","d","i","n","g"," ","f","i","l","e",":"," ">>
    \o (IF e.isError THEN e.message ELSE e.string) \o <<"]">>

\* await file.getText().catch(...)
ContentOf(outcome) ==
    IF outcome.ok THEN outcome.value ELSE ErrorPlaceholder(outcome.value)

(***************************************************************************)
(* buildTxt                                                                *)
(***************************************************************************)

TxtMime == "text/plain;charset=utf-8"

\* the character U+0060, which a string of this notation cannot hold
Backtick == "U+0060"

\* the template literal without its last newline
TxtBlock_noBlankLine(path, content) ==
    <<Backtick, Backtick, Backtick>> \o path \o <<"\n">> \o content
    \o <<"\n", Backtick, Backtick, Backtick, "\n">>

\* the template literal pushed to chunks
TxtBlock(path, content) ==
    <<Backtick, Backtick, Backtick>> \o path \o <<"\n">> \o content
    \o <<"\n", Backtick, Backtick, Backtick, "\n", "\n">>

(***************************************************************************)
(* buildPdf: lengths are in hundredths of a point.  addPage() gives an A4  *)
(* page (595.28 x 841.89) and the embedded font's 'M' is 4.8 wide at 8 pt. *)
(***************************************************************************)

PdfMime == "application/pdf"
fontSizeHeader == 10
fontSizeCode == 8
lineHeightHeader == fontSizeHeader * 140
lineHeightCode == fontSizeCode * 120
margin == 4000
pageW == 59528
pageH == 84189
charW == 480
maxCharsPerLine == (pageW - margin * 2) \div charW

\* the text drawHeader draws, the same on every page of a run (its date is not followed)
HeaderText == <<"Codebase Export">>

\* page.drawText(text, {x: margin, y, size, ...})
Draw(text, y, size) == [text |-> text, y |-> y, size |-> size]

DrawOnPage(pages, d) == [pages EXCEPT ![Len(pages)] = Append(@, d)]

\* pdfDoc.addPage(), drawHeader, cursorY below the header
newPage(g) ==
    [g EXCEPT !.pages = Append(@, <<Draw(HeaderText, pageH - margin, fontSizeHeader)>>),
              !.cursorY = pageH - margin - lineHeightHeader]

RECURSIVE SplitRange(_, _, _)
\* raw[lo..hi] cut at every line feed: the pieces of the first half, then of the
\* second, the piece that runs across the middle in one
SplitRange(raw, lo, hi) ==
    IF lo > hi THEN << <<>> >>
    ELSE IF lo = hi THEN IF raw[lo] = "\n" THEN << <<>>, <<>> >> ELSE << <<raw[lo]>> >>
    ELSE CHOOSE pieces \in
             { SubSeq(l, 1, Len(l) - 1) \o << l[Len(l)] \o r[1] >> \o Tail(r)
               : l \in {SplitRange(raw, lo, (lo + hi) \div 2)},
                 r \in {SplitRange(raw, (lo + hi) \div 2 + 1, hi)} } : TRUE

\* raw.split(/\r?\n/): the text between one line feed and the next, a carriage
\* return right before a line feed being part of the separator
SplitLines(raw) ==
    CHOOSE logical \in
        { [k \in 1..Len(pieces) |->
              IF /\ k < Len(pieces)
                 /\ pieces[k] # <<>>
                 /\ pieces[k][Len(pieces[k])] = "\r"
              THEN SubSeq(pieces[k], 1, Len(pieces[k]) - 1)
              ELSE pieces[k]]
          : pieces \in {SplitRange(text, 1, Len(text)) : text \in {raw}} } : TRUE

RECURSIVE WrapFrom_dropTail(_, _)
\* the loop of hardWrap without its last, shorter slice
WrapFrom_dropTail(rest, width) ==
    IF Len(rest) < width THEN <<>>
    ELSE <<SubSeq(rest, 1, width)>> \o WrapFrom_dropTail(SubSeq(rest, width + 1, Len(rest)), width)

RECURSIVE WrapFrom(_, _)
\* the for loop of hardWrap: text.slice(i, i + width) from the rest of the text
WrapFrom(rest, width) ==
    IF rest = <<>> THEN <<>>
    ELSE IF Len(rest) <= width THEN <<rest>>
    ELSE <<SubSeq(rest, 1, width)>> \o WrapFrom(SubSeq(rest, width + 1, Len(rest)), width)

hardWrap(text, width) ==
    IF Len(text) <= width THEN <<text>> ELSE WrapFrom(text, width)

\* hardWrap(logicalLine === '' ? ' ' : logicalLine, maxCharsPerLine)
WrapLogicalLine(logicalLine, width) ==
    hardWrap(IF logicalLine = <<>> THEN <<" ">> ELSE logicalLine, width)

\* the visual lines of one file, in the order the two nested loops draw them
VisualLines(raw, width) ==
    LET logical == SplitLines(raw)
    IN  Flatten([k \in 1..Len(logical) |-> WrapLogicalLine(logical[k], width)])

\* the body of the loop without `if (cursorY - lineHeightCode < margin) newPage()`
DrawLine_noBreak(g, vis) ==
    CHOOSE drawn \in
        { [gv EXCEPT !.pages = DrawOnPage(@, Draw(vis, gv.cursorY, fontSizeCode)),
                     !.cursorY = @ - lineHeightCode]
          : gv \in {g} } : TRUE

\* the body of `for (const vis of wrapped)`: room for the line, the line drawn,
\* the cursor moved down (gv is the document and cursor the line is drawn on)
DrawLine(g, vis) ==
    CHOOSE drawn \in
        { LET g1 == IF gv.cursorY - lineHeightCode < margin THEN newPage(gv) ELSE gv
          IN  [g1 EXCEPT !.pages = DrawOnPage(@, Draw(vis, g1.cursorY, fontSizeCode)),
                         !.cursorY = @ - lineHeightCode]
          : gv \in {g} } : TRUE

RECURSIVE DrawRange(_, _, _, _)
\* the loop body over lines[lo..hi] in order: the first half, then, on the
\* document the first half left, the second
DrawRange(g, lines, lo, hi) ==
    IF lo > hi THEN g
    ELSE IF lo = hi THEN DrawLine(g, lines[lo])
    ELSE CHOOSE drawn \in
             { DrawRange(half, lines, (lo + hi) \div 2 + 1, hi)
               : half \in {DrawRange(g, lines, lo, (lo + hi) \div 2)} } : TRUE

\* `for (const vis of wrapped)` over all the visual lines of one file
DrawLines(g, lines) ==
    CHOOSE drawn \in {DrawRange(gv, lv, 1, Len(lv)) : gv \in {g}, lv \in {lines}} : TRUE

(***************************************************************************)
(* generateDocuments, from one suspension to the next                      *)
(***************************************************************************)

GenIdle ==
    [pc |-> "idle", run |-> 0, entries |-> <<>>, i |-> 0, chunks |-> <<>>, text |-> <<>>,
     pages |-> <<>>, cursorY |-> 0, reads |-> <<>>]

\* gen.reads is the log of the getText() calls of the run: one entry per call, in
\* call order, pending until the promise settles
ReadIssued(builder, index) ==
    [builder |-> builder, index |-> index, state |-> "pending", value |-> <<>>]

\* the log once the read in flight, its last entry, has settled
ReadSettled(reads, outcome) ==
    [reads EXCEPT ![Len(reads)].state = IF outcome.ok THEN "resolved" ELSE "rejected",
                  ![Len(reads)].value = outcome.value]

\* files.filter((f) => selectedFiles.has(f.path)).map(...)
EntriesOf(fs, sel) ==
    LET chosen == SelectedOf(fs, sel)
    IN  [k \in 1..Len(chosen) |->
            [path |-> chosen[k].path, size |-> chosen[k].size, fle |-> chosen[k].fle]]

\* buildTxt with its reads started all at once, as Promise.all(files.map(...)) would
TxtContinue_allAtOnce(g) ==
    IF g.i <= Len(g.entries)
    THEN [g EXCEPT !.pc = "txtRead", !.reads = @ \o [k \in 1..(Len(g.entries) - g.i + 1) |->
                                                    ReadIssued("txt", g.i + k - 1)]]
    ELSE [g EXCEPT !.pc = "pdfFont", !.text = Flatten(g.chunks)]

\* buildTxt at the head of its loop: the next getText() is called, or the loop is
\* over, buildTxt returns and buildPdf runs up to the font fetch
TxtContinue(g) ==
    IF g.i <= Len(g.entries)
    THEN [g EXCEPT !.pc = "txtRead", !.reads = Append(@, ReadIssued("txt", g.i))]
    ELSE [g EXCEPT !.pc = "pdfFont", !.text = Flatten(g.chunks)]

\* buildPdf at the head of its loop: room for the file header, the path drawn,
\* the next getText() called; or the loop is over and pdfDoc.save() is called
PdfContinue(g) ==
    IF g.i <= Len(g.entries)
    THEN LET g1 == IF g.cursorY - lineHeightHeader < margin THEN newPage(g) ELSE g
         IN  [g1 EXCEPT !.pc = "pdfRead",
                        !.pages = DrawOnPage(@, Draw(g.entries[g.i].path, g1.cursorY, fontSizeHeader)),
                        !.cursorY = @ - lineHeightHeader,
                        !.reads = Append(@, ReadIssued("pdf", g.i))]
    ELSE [g EXCEPT !.pc = "pdfSave"]

\* the run from the call of buildTxt on
StartBuild(run, entries) ==
    TxtContinue([GenIdle EXCEPT !.run = run, !.entries = entries, !.i = 1])

\* setTxtBlob / setTxtPreview once buildTxt has returned
TxtResult(g) ==
    IF g.pc = "pdfFont"
    THEN /\ txtBlob' = [type |-> TxtMime, text |-> g.text, run |-> g.run]
         /\ txtPreview' = g.text
    ELSE UNCHANGED <<txtBlob, txtPreview>>

\* the guard at the top of generateDocuments
GenerateBlocked == exportTooLarge \/ Cardinality(selectedFiles) = 0

\* up to the first getText(): the guard returns at once; otherwise
\* setIsProcessing(true) and buildTxt is called (one run at a time is followed)
generateDocuments ==
    /\ IF GenerateBlocked
       THEN UNCHANGED <<isProcessing, gen, txtBlob, txtPreview, runs>>
       ELSE /\ gen.pc = "idle"
            /\ runs < MaxRuns
            /\ runs' = runs + 1
            /\ isProcessing' = TRUE
            /\ gen' = StartBuild(runs + 1, EntriesOf(files, selectedFiles))
            /\ TxtResult(gen')
    /\ UNCHANGED <<pendingScans, files, selectedFiles, gitignoreApplied,
                   pdfBlob, bt, hw>>

\* a getText() of buildTxt settles
TxtReadSettle(outcome) ==
    /\ gen.pc = "txtRead"
    /\ gen' = TxtContinue([gen EXCEPT
                  !.reads = ReadSettled(@, outcome),
                  !.chunks = Append(@, TxtBlock(gen.entries[gen.i].path, ContentOf(outcome))),
                  !.i = @ + 1])
    /\ TxtResult(gen')
    /\ UNCHANGED <<pendingScans, files, selectedFiles, gitignoreApplied,
                   isProcessing, pdfBlob, runs, bt, hw>>

\* the font is fetched and embedded: first page, header, then the loop
PdfFontResolve ==
    /\ gen.pc = "pdfFont"
    /\ gen' = PdfContinue([gen EXCEPT
                  !.pages = <<<<Draw(HeaderText, pageH - margin, fontSizeHeader)>>>>,
                  !.cursorY = pageH - margin - lineHeightHeader,
                  !.i = 1])
    /\ UNCHANGED <<pendingScans, files, selectedFiles, gitignoreApplied,
                   isProcessing, txtBlob, pdfBlob, txtPreview, runs, bt, hw>>

\* fetch or embedFont rejects: buildPdf and generateDocuments reject
PdfFontReject ==
    /\ gen.pc = "pdfFont"
    /\ gen' = GenIdle
    /\ UNCHANGED <<pendingScans, files, selectedFiles, gitignoreApplied,
                   isProcessing, txtBlob, pdfBlob, txtPreview, runs, bt, hw>>

\* a getText() of buildPdf settles: the file's lines are drawn, then the gap
PdfReadSettle(outcome) ==
    /\ gen.pc = "pdfRead"
    /\ \E lines \in {VisualLines(ContentOf(outcome), maxCharsPerLine)} :
       \E drawn \in {DrawLines(gen, lines)} :
          gen' = PdfContinue([drawn EXCEPT !.reads = ReadSettled(@, outcome),
                                           !.cursorY = @ - lineHeightCode,
                                           !.i = @ + 1])
    /\ UNCHANGED <<pendingScans, files, selectedFiles, gitignoreApplied,
                   isProcessing, txtBlob, pdfBlob, txtPreview, runs, bt, hw>>

\* pdfDoc.save() resolves: setPdfBlob, setIsProcessing(false)
PdfSaveResolve ==
    /\ gen.pc = "pdfSave"
    /\ pdfBlob' = [type |-> PdfMime, pages |-> gen.pages, run |-> gen.run]
    /\ isProcessing' = FALSE
    /\ gen' = GenIdle
    /\ UNCHANGED <<pendingScans, files, selectedFiles, gitignoreApplied,
                   txtBlob, txtPreview, runs, bt, hw>>

\* pdfDoc.save() rejects: generateDocuments rejects
PdfSaveReject ==
    /\ gen.pc = "pdfSave"
    /\ gen' = GenIdle
    /\ UNCHANGED <<pendingScans, files, selectedFiles, gitignoreApplied,
                   isProcessing, txtBlob, pdfBlob, txtPreview, runs, bt, hw>>

(***************************************************************************)
(* The layout of one logical line: the body of buildPdf's line loop up to  *)
(* the drawing of the visual lines                                         *)
(***************************************************************************)

HwIdle == [pc |-> "idle", line |-> <<>>, width |-> 1, out |-> <<>>]

\* const wrapped = hardWrap(logicalLine === '' ? ' ' : logicalLine, maxCharsPerLine)
LayoutLine ==
    /\ hw.pc = "call"
    /\ hw' = [hw EXCEPT !.pc = "done", !.out = WrapLogicalLine(hw.line, hw.width)]
    /\ UNCHANGED <<pendingScans, files, selectedFiles, gitignoreApplied,
                   isProcessing, txtBlob, pdfBlob, txtPreview, gen, runs, bt>>

(***************************************************************************)
(* buildTree as a process: one loop iteration per step, then the sort      *)
(***************************************************************************)

BtIdle == [pc |-> "idle", records |-> <<>>, k |-> 0, root |-> <<>>]

BuildTreeInsert ==
    /\ bt.pc = "insert"
    /\ bt.k <= Len(bt.records)
    /\ bt' = [bt EXCEPT !.root = InsertFile(@, bt.records[bt.k]), !.k = @ + 1]
    /\ UNCHANGED <<pendingScans, files, selectedFiles, gitignoreApplied,
                   isProcessing, txtBlob, pdfBlob, txtPreview, gen, runs, hw>>

BuildTreeSort ==
    /\ bt.pc = "insert"
    /\ bt.k > Len(bt.records)
    /\ bt' = [bt EXCEPT !.root = sortNodes(@), !.pc = "done"]
    /\ UNCHANGED <<pendingScans, files, selectedFiles, gitignoreApplied,
                   isProcessing, txtBlob, pdfBlob, txtPreview, gen, runs, hw>>

(***************************************************************************)
(* The component driven through what it renders                            *)
(***************************************************************************)

Init ==
    /\ pendingScans = {}
    /\ files = <<>>
    /\ selectedFiles = {}
    /\ gitignoreApplied = FALSE
    /\ isProcessing = FALSE
    /\ txtBlob = Null
    /\ pdfBlob = Null
    /\ txtPreview = <<>>
    /\ gen = GenIdle
    /\ runs = 0
    /\ bt = BtIdle
    /\ hw = HwIdle

\* the file tree section is rendered only when files.length > 0
TreeSectionShown == Len(files) > 0

\* the red "exceed the 50 MB export limit" box under the tree
SizeErrorShown == TreeSectionShown /\ exportTooLarge

\* the Generate button's disabled attribute
GenerateDisabled == isProcessing \/ Cardinality(selectedFiles) = 0 \/ exportTooLarge

FolderUpload == \E fl \in FileLists : handleFolderUpload(fl)

ScanSettle == \E fl \in pendingScans : ScanResolve(fl) \/ ScanReject(fl)

ClickFileRow ==
    \E node \in AllNodes(tree) : node.type = "file" /\ handleFileToggle(node)

ClickFolderRow ==
    \E node \in AllNodes(tree) : node.type = "folder" /\ handleFolderToggle(node)

ClickSelectAll == TreeSectionShown /\ selectAll

ClickDeselectAll == TreeSectionShown /\ deselectAll

ClickGenerate == TreeSectionShown /\ ~GenerateDisabled /\ generateDocuments

\* the steps of a run whose entries read Files
TxtRead ==
    /\ gen.pc = "txtRead"
    /\ \E o \in Outcomes(gen.entries[gen.i], FileReadErrors) : TxtReadSettle(o)

PdfRead ==
    /\ gen.pc = "pdfRead"
    /\ \E o \in Outcomes(gen.entries[gen.i], FileReadErrors) : PdfReadSettle(o)

PdfFont == PdfFontResolve \/ PdfFontReject

PdfSave == PdfSaveResolve \/ PdfSaveReject

Next ==
    \/ FolderUpload
    \/ ScanSettle
    \/ ClickFileRow
    \/ ClickFolderRow
    \/ ClickSelectAll
    \/ ClickDeselectAll
    \/ ClickGenerate
    \/ TxtRead
    \/ PdfFont
    \/ PdfRead
    \/ PdfSave

Spec == Init /\ [][Next]_vars

(***************************************************************************)
(* The selection helpers called directly, with any arguments               *)
(***************************************************************************)

UnknownPath == <<"p","/","z",".","j","s">>

\* the paths the direct calls are given: p/a.js, p/x and p/x/B.JS of the pool and
\* one of no file
PathUniverse == {Normalized(FilePool[i]) : i \in 2..4} \cup {UnknownPath}

\* the longest paths array given to toggleFolder
MaxTogglePaths == 2

PathLists == UNION {[1..n -> PathUniverse] : n \in 0..MaxTogglePaths}

\* the state right after the upload of fl has been applied
AfterUpload(fl) ==
    /\ pendingScans = {}
    /\ files = scanFolder(fl)
    /\ gitignoreApplied = (igFileCandidates(fl) # <<>>)
    /\ isProcessing = FALSE
    /\ txtBlob = Null
    /\ pdfBlob = Null
    /\ txtPreview = <<>>
    /\ gen = GenIdle
    /\ runs = 0
    /\ bt = BtIdle
    /\ hw = HwIdle

InitSel == \E fl \in FileLists : AfterUpload(fl) /\ selectedFiles = PathsOf(files)

CallToggleFile == \E p \in PathUniverse : toggleFile(p)

CallToggleFolder == \E paths \in PathLists : \E select \in BOOLEAN : toggleFolder(paths, select)

NextSel ==
    \/ CallToggleFile
    \/ CallToggleFolder
    \/ selectAll
    \/ deselectAll

SpecSel == InitSel /\ [][NextSel]_vars

(***************************************************************************)
(* generateDocuments called directly, whatever the button's state, from    *)
(* the states uploads and toggles lead to                                  *)
(***************************************************************************)

InitGen ==
    \E fl \in FileLists :
        /\ AfterUpload(fl)
        /\ selectedFiles \in SUBSET PathsOf(scanFolder(fl))

NextGen ==
    \/ generateDocuments
    \/ TxtRead
    \/ PdfFont
    \/ PdfRead
    \/ PdfSave

SpecGen == InitGen /\ [][NextGen]_vars

(***************************************************************************)
(* buildTxt and buildPdf on any entries                                    *)
(***************************************************************************)

EntryPool ==
    { [path |-> <<"a",".","t","x","t">>, size |-> 5,
       fle |-> [text |-> <<"h","e","l","l","o">>]],
      [path |-> <<"b">>, size |-> 0, fle |-> [text |-> <<>>]],
      [path |-> <<"c","/","d">>, size |-> 4, fle |-> [text |-> <<"x","\r","\n","\n","y">>]] }

\* the longest entries array given to the builders
MaxEntries == 2

EntryLists == UNION {[1..n -> EntryPool] : n \in 0..MaxEntries}

\* generateDocuments has called buildTxt(es)
BuildCalled(es) ==
    /\ pendingScans = {}
    /\ files = <<>>
    /\ selectedFiles = {}
    /\ gitignoreApplied = FALSE
    /\ isProcessing = TRUE
    /\ runs = 1
    /\ gen = StartBuild(1, es)
    /\ txtBlob = IF gen.pc = "pdfFont"
                 THEN [type |-> TxtMime, text |-> gen.text, run |-> 1] ELSE Null
    /\ txtPreview = IF gen.pc = "pdfFont" THEN gen.text ELSE <<>>
    /\ pdfBlob = Null
    /\ bt = BtIdle
    /\ hw = HwIdle

InitBuild == \E es \in EntryLists : BuildCalled(es)

BuildTxtRead ==
    /\ gen.pc = "txtRead"
    /\ \E o \in Outcomes(gen.entries[gen.i], ReadErrors) : TxtReadSettle(o)

BuildPdfRead ==
    /\ gen.pc = "pdfRead"
    /\ \E o \in Outcomes(gen.entries[gen.i], ReadErrors) : PdfReadSettle(o)

NextBuild ==
    \/ BuildTxtRead
    \/ PdfFont
    \/ BuildPdfRead
    \/ PdfSave

SpecBuild == InitBuild /\ [][NextBuild]_vars

(***************************************************************************)
(* buildTree on any records                                                *)
(***************************************************************************)

RecordPool ==
    { [path |-> <<"a","/","b">>, size |-> 1],
      [path |-> <<"a","/","b">>, size |-> 2],
      [path |-> <<"a">>, size |-> 3],
      [path |-> <<"B">>, size |-> 4],
      [path |-> <<"a","/","C">>, size |-> 5],
      [path |-> <<"a","/","b","/","c">>, size |-> 6] }

\* the longest records array given to buildTree
MaxRecords == 3

RecordLists == UNION {[1..n -> RecordPool] : n \in 0..MaxRecords}

InitTree ==
    /\ pendingScans = {}
    /\ files = <<>>
    /\ selectedFiles = {}
    /\ gitignoreApplied = FALSE
    /\ isProcessing = FALSE
    /\ txtBlob = Null
    /\ pdfBlob = Null
    /\ txtPreview = <<>>
    /\ gen = GenIdle
    /\ runs = 0
    /\ hw = HwIdle
    /\ \E rs \in RecordLists : bt = [pc |-> "insert", records |-> rs, k |-> 1, root |-> <<>>]

NextTree ==
    \/ BuildTreeInsert
    \/ BuildTreeSort

SpecTree == InitTree /\ [][NextTree]_vars

(***************************************************************************)
(* Folder uploads alone, over every listing of the pool                    *)
(***************************************************************************)

ScanUpload == \E fl \in ScanFileLists : handleFolderUpload(fl)

NextScan ==
    \/ ScanUpload
    \/ ScanSettle

SpecScan == Init /\ [][NextScan]_vars

(***************************************************************************)
(* Properties of buildTree and collectFilePaths (SpecTree)                 *)
(***************************************************************************)

\* folders before files, and within a kind names in non-decreasing order
FoldersFirstSorted(list) ==
    \A i, j \in 1..Len(list) :
        i < j =>
            /\ ~(list[i].type = "file" /\ list[j].type = "folder")
            /\ list[i].type = list[j].type => LocaleCompare(list[i].name, list[j].name) <= 0

\* C5: for every input list of records, every sibling list of the tree buildTree
\* returns (the root list and every folder's children) has all folder nodes before
\* all file nodes, and within each kind the names are in non-decreasing lexical
\* (localeCompare) order.
C5_SiblingsOrdered ==
    bt.pc = "done" => \A list \in SiblingLists(bt.root) : FoldersFirstSorted(list)

\* buildTree has returned a tree whose root list and a folder's children were both
\* out of order before the sort, with folders and files side by side
C5_Witness ==
    /\ bt.pc = "done"
    /\ ~FoldersFirstSorted(InsertAll(<<>>, bt.records))
    /\ \E list \in SiblingLists(InsertAll(<<>>, bt.records)) :
            /\ list # InsertAll(<<>>, bt.records)
            /\ ~FoldersFirstSorted(list)
    /\ \E list \in SiblingLists(bt.root) :
            /\ \E i \in 1..Len(list) : list[i].type = "folder"
            /\ \E i \in 1..Len(list) : list[i].type = "file"

\* the distinct paths of a record list
DistinctPaths(records) == {records[k].path : k \in 1..Len(records)}

\* C6: for every input list of records, duplicates and prefix collisions in either
\* order included, concatenating collectFilePaths over all root nodes of
\* buildTree(records) yields each distinct input path exactly once and no other path.
C6_RoundTrip ==
    bt.pc = "done" =>
        LET out == CollectAll(bt.root)
        IN  /\ {out[k] : k \in 1..Len(out)} = DistinctPaths(bt.records)
            /\ \A i, j \in 1..Len(out) : out[i] = out[j] => i = j

\* buildTree has returned for a list whose later record is a folder prefix of an
\* earlier one, and that record's path is not among the collected paths
C6_Witness ==
    /\ bt.pc = "done"
    /\ bt.records = << [path |-> <<"a","/","b">>, size |-> 1], [path |-> <<"a">>, size |-> 3] >>
    /\ CollectAll(bt.root) = << <<"a","/","b">> >>

(***************************************************************************)
(* Properties of the selection helpers (SpecSel)                           *)
(***************************************************************************)

\* C8: toggleFile(path) called with a path of no file of the current file list
\* leaves the selection set unchanged.
C8_UnknownPathNoOp ==
    [][\A p \in PathUniverse :
          (p \notin PathsOf(files) /\ toggleFile(p)) => selectedFiles' = selectedFiles]_vars

\* a path of no file of the list is a member of the selection
C8_Witness == UnknownPath \notin PathsOf(files) /\ UnknownPath \in selectedFiles

\* C9: for every selection S and path p, a toggleFile(p) step changes the
\* membership of p and of no other path, and toggleFile(p) applied to its result
\* gives back exactly S.
C9_ToggleInvolution ==
    [][\A p \in PathUniverse :
          toggleFile(p) =>
              /\ (p \in selectedFiles') # (p \in selectedFiles)
              /\ \A q \in (PathUniverse \cup selectedFiles \cup selectedFiles') \ {p} :
                     (q \in selectedFiles') = (q \in selectedFiles)
              /\ ToggleFileUpdater(selectedFiles', p) = selectedFiles]_vars

\* one file of several has been toggled out of the selection an upload made
C9_Witness ==
    /\ Len(files) >= 2
    /\ \E p \in PathsOf(files) : selectedFiles = PathsOf(files) \ {p}

\* the elements of a paths array
ElementsOf(paths) == {paths[k] : k \in 1..Len(paths)}

\* C10: a toggleFolder(paths, select) step takes the selection S it is applied to
\* to exactly S \cup paths when select is true and S \ paths when it is false, in
\* one transition, whatever toggles came before (S = {x/1.js, x/2.js, y/3.js},
\* paths = [x/1.js, x/2.js], select = false gives exactly {y/3.js}).
C10_FolderToggleAtomic ==
    [][/\ \A paths \in PathLists : \A select \in BOOLEAN :
              toggleFolder(paths, select) =>
                  selectedFiles' = IF select
                                   THEN selectedFiles \cup ElementsOf(paths)
                                   ELSE selectedFiles \ ElementsOf(paths)
       /\ ToggleFolderUpdater({"x/1.js", "x/2.js", "y/3.js"}, <<"x/1.js", "x/2.js">>, FALSE)
              = {"y/3.js"}]_vars

\* after other toggles, a batch of two paths has been taken out of the selection
\* and a path of neither the batch nor the file list is still a member
C10_Witness ==
    /\ UnknownPath \in selectedFiles
    /\ Cardinality(PathsOf(files)) >= 2
    /\ selectedFiles \cap PathsOf(files) = {}

(***************************************************************************)
(* Properties of the folder scan (SpecScan)                                *)
(***************************************************************************)

\* what the two filters keep of an upload when only one of them is consulted
KeptByOneFilter(fl) ==
    LET hasIg == igFileCandidates(fl) # <<>>
        rules == IgnoreRules(igFileCandidates(fl))
    IN  {Normalized(fl[k]) : k \in {i \in 1..Len(fl) :
            IF hasIg THEN ~Ignores(rules, RelPath(fl, fl[i])) ELSE isCodeFile(fl[i].name)}}

\* the step in which the scan of fl ends and its result is applied
ScanApplied(fl) ==
    \/ Len(fl) > 0 /\ igFileCandidates(fl) = <<>> /\ handleFolderUpload(fl)
    \/ ScanResolve(fl)

\* C4: when a .gitignore was found a file is kept iff the ignore rules do not match
\* its root-relative path, and when none was found iff the extension classifier
\* accepts its name; the two filters are never both applied to the same upload.
C4_FiltersExclusive ==
    [][\A fl \in ScanFileLists : ScanApplied(fl) => PathsOf(files') = KeptByOneFilter(fl)]_vars

\* a scan with a .gitignore has been applied and a file no rule matches is missing
C4_Witness ==
    /\ gitignoreApplied
    /\ files = scanFolder(<<FilePool[1], FilePool[6]>>)
    /\ PathsOf(files) = {Normalized(FilePool[1])}

(***************************************************************************)
(* Properties of the component driven through what it renders (Spec)       *)
(***************************************************************************)

\* the paths of the nodes of one type in the rendered tree
NodePaths(type) == {n.path : n \in {m \in AllNodes(tree) : m.type = type}}

\* C7: in every state reachable by uploads and by toggles driven through the
\* rendered tree, every member of the selection is the path of a File node of the
\* tree built from the current file list, and no folder's path is a member.
C7_SelectionIsFiles ==
    /\ selectedFiles \subseteq NodePaths("file")
    /\ selectedFiles \cap NodePaths("folder") = {}

\* the selection holds the path of a folder node of the rendered tree
C7_Witness ==
    /\ selectedFiles \subseteq NodePaths("file")
    /\ <<"p","/","x">> \in selectedFiles \cap NodePaths("folder")

(***************************************************************************)
(* Properties of generateDocuments called directly (SpecGen)               *)
(***************************************************************************)

\* the call starts a run: isProcessing is set and buildTxt is entered
GenerationStarts == generateDocuments /\ isProcessing' /\ gen'.pc # "idle"

\* C1: whenever the cumulative size of the selected files exceeds 52,428,800
\* bytes, a call of generateDocuments changes nothing (no getText() is called,
\* neither builder starts, no blob is set) and the size error is on screen; with
\* a selection of exactly 52,428,800 bytes the call starts the generation.
C1_SizeCapBlocks ==
    /\ [][(getSelectedSize > 52428800 /\ generateDocuments) =>
              UNCHANGED <<gen, isProcessing, txtBlob, pdfBlob, txtPreview, runs>>]_vars
    /\ [](getSelectedSize > 52428800 /\ TreeSectionShown => SizeErrorShown)
    /\ []((getSelectedSize = 52428800 /\ gen.pc = "idle" /\ runs < MaxRuns)
              => ENABLED GenerationStarts)

\* a run is under way over a selection of exactly 52,428,800 bytes: the first
\* getText() has been called
C1_Witness ==
    /\ getSelectedSize = 52428800
    /\ gen.pc = "txtRead"
    /\ isProcessing
    /\ SumSizes(gen.entries) = 52428800

(***************************************************************************)
(* Properties of buildTxt and buildPdf (SpecBuild)                         *)
(***************************************************************************)

\* the getText() calls one builder has made so far, in call order
ReadsOf(builder) == SelectSeq(gen.reads, LAMBDA r : r.builder = builder)

\* [Error reading file: <message>]
PlaceholderWith(message) ==
    <<"[","E","r","r","o","r"," ","r","e","a","d","i","n","g"," ","f","i","l","e",":"," ">>
    \o message \o <<"]">>

\* what is to be emitted for a settled read: the text it resolved with, or the
\* placeholder carrying the message of what it rejected with
EmittedFor(rd) ==
    IF rd.state = "resolved" THEN rd.value
    ELSE PlaceholderWith(IF rd.value.isError THEN rd.value.message ELSE rd.value.string)

\* the texts buildPdf has drawn, page after page, without the running header
DrawnTexts ==
    LET all == Flatten(gen.pages)
        body == SelectSeq(all, LAMBDA d : d.text # HeaderText)
    IN  [k \in 1..Len(body) |-> body[k].text]

\* the texts buildPdf is to draw for the entries: each path, then its lines
ExpectedDrawn ==
    Flatten([k \in 1..Len(gen.entries) |->
        <<gen.entries[k].path>> \o
        (IF ReadsOf("pdf")[k].state = "rejected"
         THEN <<EmittedFor(ReadsOf("pdf")[k])>>
         ELSE VisualLines(ReadsOf("pdf")[k].value, maxCharsPerLine))])

\* C2: for every ordered list of entries and every subset of them whose getText
\* rejects, buildTxt and buildPdf both go over all entries, what is emitted for a
\* failing entry is [Error reading file: <message>] with the rejection's message,
\* and no read is made twice.
C2_ReadFailuresSubstituted ==
    /\ \A b \in {"txt", "pdf"} : \A k \in 1..Len(ReadsOf(b)) : ReadsOf(b)[k].index = k
    /\ gen.pc \notin {"idle", "txtRead"} =>
          /\ Len(ReadsOf("txt")) = Len(gen.entries)
          /\ Len(gen.chunks) = Len(gen.entries)
          /\ \A k \in 1..Len(gen.entries) :
                gen.chunks[k] =
                    <<Backtick, Backtick, Backtick>> \o gen.entries[k].path \o <<"\n">>
                    \o EmittedFor(ReadsOf("txt")[k])
                    \o <<"\n", Backtick, Backtick, Backtick, "\n", "\n">>
    /\ gen.pc = "pdfSave" =>
          /\ Len(ReadsOf("pdf")) = Len(gen.entries)
          /\ DrawnTexts = ExpectedDrawn

\* both builders are through two entries: each had a read rejected with an Error
\* or with another value before a read that resolved
C2_Witness ==
    /\ gen.pc = "pdfSave"
    /\ Len(gen.entries) = 2
    /\ ReadsOf("txt")[1].state = "rejected" /\ ReadsOf("txt")[1].value.isError
    /\ ReadsOf("txt")[2].state = "resolved"
    /\ ReadsOf("pdf")[1].state = "rejected" /\ ~ReadsOf("pdf")[1].value.isError
    /\ ReadsOf("pdf")[2].state = "resolved"

RECURSIVE BlocksFrom(_)
\* the blocks of the entries from the k-th on, one after the other
BlocksFrom(k) ==
    IF k > Len(gen.entries) THEN <<>>
    ELSE <<Backtick, Backtick, Backtick>> \o gen.entries[k].path \o <<"\n">>
         \o ContentOf([ok |-> ReadsOf("txt")[k].state = "resolved",
                       value |-> ReadsOf("txt")[k].value])
         \o <<"\n", Backtick, Backtick, Backtick, "\n", "\n">>
         \o BlocksFrom(k + 1)

\* C3: for every ordered sequence of entries, the text buildTxt returns is the
\* concatenation, in input order, of one block per entry: three backticks, the
\* path, newline, the content, newline, three backticks, newline, newline; there
\* are as many blocks as entries, no entry gives the empty string, and the entry
\* a.txt with content hello gives the block of a.txt and hello.
C3_TxtIsBlocksInOrder ==
    gen.pc \notin {"idle", "txtRead"} =>
        /\ gen.text = BlocksFrom(1)
        /\ Len(gen.chunks) = Len(gen.entries)
        /\ gen.entries = <<>> => gen.text = <<>>
        /\ txtBlob = [type |-> "text/plain;charset=utf-8", text |-> gen.text, run |-> gen.run]
        /\ txtPreview = gen.text
        /\ (/\ Len(gen.entries) = 1
            /\ gen.entries[1].path = <<"a",".","t","x","t">>
            /\ ReadsOf("txt")[1].state = "resolved"
            /\ ReadsOf("txt")[1].value = <<"h","e","l","l","o">>)
           => gen.text = <<Backtick, Backtick, Backtick, "a", ".", "t", "x", "t", "\n",
                           "h", "e", "l", "l", "o", "\n",
                           Backtick, Backtick, Backtick, "\n", "\n">>

\* buildTxt has returned the text of two entries whose reads resolved: the block
\* of c/d (18 characters) and then the block of a.txt (20 characters)
C3_Witness ==
    /\ gen.pc = "pdfFont"
    /\ Len(gen.entries) = 2
    /\ gen.entries[1].path = <<"c","/","d">>
    /\ gen.entries[2].path = <<"a",".","t","x","t">>
    /\ ReadsOf("txt")[1].state = "resolved"
    /\ ReadsOf("txt")[2].state = "resolved"
    /\ Len(gen.text) = 38
    /\ SubSeq(gen.text, 4, 6) = <<"c","/","d">>
    /\ SubSeq(gen.text, 22, 26) = <<"a",".","t","x","t">>

\* the positions in the log of the getText() calls that have not settled
PendingReads == {k \in 1..Len(gen.reads) : gen.reads[k].state = "pending"}

\* C11: during a generation run at most one getText() call is in flight, a read
\* starts only after every earlier read has settled (resolved or rejected),
\* buildPdf reads only after buildTxt has read, and each builder issues its reads
\* in the entries' given order.
C11_ReadsSequential ==
    /\ Cardinality(PendingReads) <= 1
    /\ PendingReads \subseteq {Len(gen.reads)}
    /\ (PendingReads # {}) = (gen.pc \in {"txtRead", "pdfRead"})
    /\ \A j, k \in 1..Len(gen.reads) :
            j < k => ~(gen.reads[j].builder = "pdf" /\ gen.reads[k].builder = "txt")
    /\ \A b \in {"txt", "pdf"} : \A k \in 1..Len(ReadsOf(b)) : ReadsOf(b)[k].index = k

\* buildPdf's read of the second of two entries is in flight; the three reads
\* before it have settled, one of them rejected
C11_Witness ==
    /\ gen.pc = "pdfRead"
    /\ Len(gen.entries) = 2
    /\ Len(gen.reads) = 4
    /\ PendingReads = {4}
    /\ gen.reads[4] = [builder |-> "pdf", index |-> 2, state |-> "pending", value |-> <<>>]
    /\ \E k \in 1..3 : gen.reads[k].state = "rejected"

(***************************************************************************)
(* hardWrap on any logical line and width                                  *)
(***************************************************************************)

LineAlphabet == {"a", "b"}

\* the longest logical line drawn from the alphabet
MaxLineLen == 5

\* the largest width tried with those lines
MaxWrapWidth == 3

LogicalLines == UNION {[1..n -> LineAlphabet] : n \in 0..MaxLineLen}

\* a line of 500 characters, no two neighbours alike
LongLine == [k \in 1..500 |-> IF k % 2 = 0 THEN "a" ELSE "b"]

InitWrap ==
    /\ pendingScans = {}
    /\ files = <<>>
    /\ selectedFiles = {}
    /\ gitignoreApplied = FALSE
    /\ isProcessing = FALSE
    /\ txtBlob = Null
    /\ pdfBlob = Null
    /\ txtPreview = <<>>
    /\ gen = GenIdle
    /\ runs = 0
    /\ bt = BtIdle
    /\ \/ \E l \in LogicalLines : \E w \in 1..MaxWrapWidth :
              hw = [pc |-> "call", line |-> l, width |-> w, out |-> <<>>]
       \/ \E w \in {80, maxCharsPerLine} :
              hw = [pc |-> "call", line |-> LongLine, width |-> w, out |-> <<>>]

NextWrap == LayoutLine

SpecWrap == InitWrap /\ [][NextWrap]_vars

\* C12: a logical line of length L gives, for every width W >= 1, exactly
\* max(1, ceil(L / W)) visual lines: chunks of exactly W characters except
\* possibly the last, whose concatenation is the line (L = 500, W = 80: six of 80
\* and one of 20); an empty logical line gives exactly one blank visual line.
C12_VisualLineCount ==
    hw.pc = "done" =>
        LET L == Len(hw.line)
            W == hw.width
            n == Len(hw.out)
        IN  /\ n = IF L = 0 THEN 1 ELSE (L + W - 1) \div W
            /\ L = 0 => hw.out = << <<" ">> >>
            /\ L > 0 =>
                  /\ Flatten(hw.out) = hw.line
                  /\ \A k \in 1..(n - 1) : Len(hw.out[k]) = W
                  /\ Len(hw.out[n]) \in 1..W
            /\ (L = 500 /\ W = 80) =>
                  /\ n = 7
                  /\ \A k \in 1..6 : Len(hw.out[k]) = 80
                  /\ Len(hw.out[7]) = 20

\* the line of 500 characters has been laid out at width 80 in seven visual lines
C12_Witness ==
    /\ hw.pc = "done"
    /\ Len(hw.line) = 500
    /\ hw.width = 80
    /\ Len(hw.out) = 7

(***************************************************************************)
(* buildPdf on entries long enough to fill pages                           *)
(***************************************************************************)

\* a short entry, an entry of 152 empty lines (two pages less a line), and an
\* entry whose first line is wider than a page
PdfEntryPool ==
    { [path |-> <<"a",".","t","x","t">>, size |-> 5,
       fle |-> [text |-> <<"h","e","l","l","o">>]],
      [path |-> <<"t">>, size |-> 151, fle |-> [text |-> [k \in 1..151 |-> "\n"]]],
      [path |-> <<"w">>, size |-> 252,
       fle |-> [text |-> [k \in 1..250 |-> "w"] \o <<"\n", "z">>]] }

\* the longest entries array given to buildPdf with these entries
MaxPdfEntries == 2

PdfEntryLists == UNION {[1..n -> PdfEntryPool] : n \in 0..MaxPdfEntries}

InitPdf == \E es \in PdfEntryLists : BuildCalled(es)

NextPdf ==
    \/ TxtRead
    \/ PdfFont
    \/ PdfRead
    \/ PdfSave

SpecPdf == InitPdf /\ [][NextPdf]_vars

\* the height of the line a drawText of that size starts: 1.4 x 10 pt for the
\* headers, 1.2 x 8 pt for code, in hundredths of a point
HeightOf(d) == IF d.size = 10 THEN 1400 ELSE 960

\* C13: in buildPdf every visual code line and every per-file sub-header is drawn
\* at a cursor position where it fits above the bottom margin (y minus the
\* line's height is at least the margin) and below what the page already holds;
\* every page starts with the running header; and at the end every sub-header
\* and every visual line of every file has been drawn, in order.
C13_LinesFitOnPages ==
    /\ \A p \in 1..Len(gen.pages) :
          LET page == gen.pages[p]
          IN  /\ Len(page) >= 1
              /\ page[1] = [text |-> HeaderText, y |-> 84189 - 4000, size |-> 10]
              /\ \A k \in 2..Len(page) :
                    /\ page[k].text # HeaderText
                    /\ page[k].y - HeightOf(page[k]) >= 4000
                    /\ page[k - 1].y - HeightOf(page[k - 1]) >= page[k].y
    /\ gen.pc = "pdfSave" => DrawnTexts = ExpectedDrawn

\* buildPdf is through two entries on three pages: the second page was started
\* for a code line and the third for the sub-header of the second entry
C13_Witness ==
    /\ gen.pc = "pdfSave"
    /\ Len(gen.entries) = 2
    /\ Len(gen.pages) = 3
    /\ gen.pages[2][2].size = 8
    /\ gen.pages[3][2].size = 10
    /\ gen.pages[3][2].text = gen.entries[2].path

(***************************************************************************)
(* Properties of the artifacts across generation runs (SpecGen, Spec)      *)
(***************************************************************************)

\* C14: from the moment a generateDocuments invocation begins, the TXT blob, the
\* PDF blob and the preview of the invocation before it are no longer held, so
\* a held TXT blob and a held PDF blob never come from two different runs.
C14_ArtifactsOfOneRun ==
    /\ gen.pc # "idle" =>
          /\ txtBlob = Null \/ txtBlob.run = gen.run
          /\ pdfBlob = Null \/ pdfBlob.run = gen.run
          /\ txtBlob = Null => txtPreview = <<>>
    /\ (txtBlob # Null /\ pdfBlob # Null) => txtBlob.run = pdfBlob.run

\* the second run has stored its TXT blob while the PDF blob of the first is held
C14_Witness ==
    /\ txtBlob # Null
    /\ pdfBlob # Null
    /\ txtBlob.run = 2
    /\ pdfBlob.run = 1
    /\ isProcessing

\* uploads and generation runs alone, every file of an upload left selected
NextUpload ==
    \/ FolderUpload
    \/ ScanSettle
    \/ ClickGenerate
    \/ TxtRead
    \/ PdfFont
    \/ PdfRead
    \/ PdfSave

SpecUpload == Init /\ [][NextUpload]_vars

\* C15: every completed upload of a non-empty FileList replaces the file list by
\* the scan's result, and right after it the selection is exactly the set of
\* paths of the new list, the tree is the one built from the new list, and the
\* TXT blob, the PDF blob and the preview are cleared.
C15_UploadResets ==
    [][\A fl \in FileLists :
          ScanApplied(fl) =>
              \E clean \in {scanFolder(fl)} :
                  /\ files' = clean
                  /\ selectedFiles' = PathsOf(clean)
                  /\ buildTree(files') = buildTree(clean)
                  /\ txtBlob' = Null
                  /\ pdfBlob' = Null
                  /\ txtPreview' = <<>>]_vars

\* a run has stored both artifacts, and an upload after it has left a file list
\* with all its paths selected and no artifact
C15_Witness ==
    /\ runs >= 1
    /\ ~isProcessing
    /\ gen.pc = "idle"
    /\ Len(files) > 0
    /\ selectedFiles = PathsOf(files)
    /\ txtBlob = Null
    /\ pdfBlob = Null
    /\ txtPreview = <<>>

\* C16: while a generation is in flight (isProcessing is true) no upload,
\* toggleFile, toggleFolder, selectAll or deselectAll changes the file list or
\* the selection, so the artifacts a run stores are built from the file list
\* and the selection current when it completes.
C16_FrozenWhileProcessing ==
    [][isProcessing => (files' = files /\ selectedFiles' = selectedFiles)]_vars

\* a run is reading files while the selection is no longer the paths of its entries
C16_Witness ==
    /\ isProcessing
    /\ gen.pc \in {"txtRead", "pdfRead"}
    /\ selectedFiles # {gen.entries[k].path : k \in 1..Len(gen.entries)}

(***************************************************************************)
(* generateDocuments called directly, every awaited promise settling       *)
(***************************************************************************)

SpecGenFair ==
    /\ InitGen
    /\ [][NextGen]_vars
    /\ WF_vars(TxtRead)
    /\ WF_vars(PdfFont)
    /\ WF_vars(PdfRead)
    /\ WF_vars(PdfSave)

\* C17: every run that starts (isProcessing set to true) eventually ends with
\* isProcessing false, also when buildPdf rejects; no TXT blob of a run that has
\* ended is held without the PDF blob of the same run.
C17_RunsEnd ==
    /\ isProcessing ~> ~isProcessing
    /\ [](gen.pc = "idle" /\ txtBlob # Null => pdfBlob # Null /\ pdfBlob.run = txtBlob.run)

\* buildPdf has rejected: no step of the run is left, isProcessing is still true
\* and the TXT blob of the run is held without a PDF blob
C17_Witness ==
    /\ gen.pc = "idle"
    /\ isProcessing
    /\ txtBlob # Null
    /\ txtBlob.run = runs
    /\ pdfBlob = Null

====
